---- MODULE Spec2Model ----
(***************************************************************************)
(* A model of the M-Pesa tutorial client and callback server.              *)
(*                                                                         *)
(* One process holds one Mpesa value (NewMpesa), a number of goroutines    *)
(* that each run one InitiateSTKPushRequest or InitiateB2CRequest, and the *)
(* HTTP server of httpServer with its two callback handlers.  The remote   *)
(* service is the environment: it answers the outbound requests and posts  *)
(* callbacks whenever it likes.                                            *)
(*                                                                         *)
(* Strings the Go code leaves empty are "" here; an access token is a      *)
(* number, 0 standing for the empty string.                                *)
(***************************************************************************)
EXTENDS Integers, Sequences, FiniteSets, Bags

\* ------------------------------------------------------------- bounds

\* Goroutines calling an Initiate method, and callbacks the remote posts.
NumCalls == 2
MaxCallbacks == 2

Calls == 1..NumCalls

\* --------------------------------------------------------- value sets

Kinds == {"stk", "b2c"}
Ids == {"ws_CO_1", "ws_CO_2"}
ResultCodes == {0, 1032}
HttpStatuses == {200, 401}
BaseURLs == {"https://sandbox.safaricom.co.ke", "http://[::1"}
Paths == {"/stk-push-callback", "/b2c-callback"}

\* A URL http.NewRequest accepts: url.Parse rejects the second base URL.
ValidURL(u) == u = "https://sandbox.safaricom.co.ke"

\* The Initiate method call c runs: the odd calls push an STK prompt, the
\* even ones make a B2C payment.
KindOf(c) == IF c % 2 = 1 THEN "stk" ELSE "b2c"

\* The token the remote issues for the token request of call c.
FreshToken(c) == c

\* The ResultDesc the remote sends with a ResultCode.
DescOf(rc) == IF rc = 0 THEN "Success" ELSE "Cancelled"

\* A response body: not decodable into the target struct (not JSON, or a
\* field of the wrong JSON type), the JSON literal null, or a JSON object.
\* val is the access token (token endpoint) or the correlation id (POST).
BodyInvalid == [form |-> "invalid", tok |-> 0, id |-> "", errorCode |-> ""]
BodyNull == [form |-> "null", tok |-> 0, id |-> "", errorCode |-> ""]
BodyObject(t, i, e) == [form |-> "object", tok |-> t, id |-> i, errorCode |-> e]

TokenBodies(c) ==
    {BodyInvalid, BodyNull, BodyObject(FreshToken(c), "", ""),
     BodyObject(0, "", "E"), BodyObject(0, "", "")}

PostBodies ==
    {BodyInvalid, BodyNull, BodyObject(0, "", "E"), BodyObject(0, "", "")}
    \cup {BodyObject(0, i, "") : i \in Ids}

\* What one HTTP exchange gives the client: a transport error (no
\* connection, the 10 s client timeout), a body that cannot be read, or a
\* status line with a body.
NoAnswer == [type |-> "none", status |-> 0, body |-> BodyInvalid]
NetErr == [type |-> "neterr", status |-> 0, body |-> BodyInvalid]
ReadErr == [type |-> "readerr", status |-> 0, body |-> BodyInvalid]
Resp(s, b) == [type |-> "resp", status |-> s, body |-> b]

Answers(bodies) ==
    {NetErr, ReadErr}
    \cup {Resp(s, b) : s \in HttpStatuses, b \in bodies}

\* ------------------------------------------------------------- state

VARIABLES
    mpesa,     \* the Mpesa value: consumerKey, consumerSecret, baseURL, client
    alive,     \* the process has not exited (log.Fatal, an unrecovered panic)
    pc,        \* per call: idle, awaitToken, awaitPost, done
    token,     \* per call: accessTokenResponse.AccessToken once fetched
    net,       \* per call: the remote's answer on its way to the client
    sent,      \* per call: the outbound requests it has sent, in order
    ret,       \* per call: what the Initiate method returned
    inbound,   \* callbacks posted to the server and not yet handled
    posted,    \* number of callbacks the remote has posted
    stdout     \* what the handlers printed, in order

vars == <<mpesa, alive, pc, token, net, sent, ret, inbound, posted, stdout>>

\* ------------------------------------------------------------ client

NewMpesa(opts) ==
    [consumerKey |-> opts.ConsumerKey,
     consumerSecret |-> opts.ConsumerSecret,
     baseURL |-> opts.BaseURL,
     client |-> [Timeout |-> 10]]

\* makeRequest: client.Do, then io.ReadAll.  The status is never looked at.
makeRequest(ans) ==
    IF ans.type = "neterr" THEN [err |-> "network", body |-> BodyInvalid]
    ELSE IF ans.type = "readerr" THEN [err |-> "read", body |-> BodyInvalid]
    ELSE [err |-> "", body |-> ans.body]

\* json.Unmarshal(resp, &p) with p a pointer to a fresh struct: an error for
\* an undecodable body, p = nil for null, else the struct with the fields
\* the object carries and "" for the others.
Unmarshal(body) ==
    IF body.form = "invalid" THEN [err |-> "json", ptr |-> "nil", val |-> BodyObject(0, "", "")]
    ELSE IF body.form = "null" THEN [err |-> "", ptr |-> "nil", val |-> BodyObject(0, "", "")]
    ELSE [err |-> "", ptr |-> "struct", val |-> body]

\* The return values of the Initiate methods.
NoRet == [err |-> "", resp |-> "none", id |-> "", errorCode |-> ""]
RetErr(e) == [err |-> e, resp |-> "nil", id |-> "", errorCode |-> ""]
RetResp(u) == [err |-> "", resp |-> u.ptr, id |-> u.val.id, errorCode |-> u.val.errorCode]
RetPanic == [err |-> "panic", resp |-> "none", id |-> "", errorCode |-> ""]

GetToken == [method |-> "GET", path |-> "/oauth/v1/generate", bearer |-> -1]
PostTo(k, t) ==
    [method |-> "POST",
     path |-> IF k = "stk" THEN "/mpesa/stkpush/v1/processrequest"
              ELSE "/mpesa/b2c/v1/paymentrequest",
     bearer |-> t]

Return(c, r) ==
    /\ pc' = [pc EXCEPT ![c] = "done"]
    /\ ret' = [ret EXCEPT ![c] = r]
    /\ net' = [net EXCEPT ![c] = NoAnswer]

\* The first lines of an Initiate method, up to the client.Do of the token
\* request: json.Marshal of a struct of strings cannot fail; http.NewRequest
\* fails on a base URL that does not parse.
InitiateBegin(c, k) ==
    /\ alive
    /\ pc[c] = "idle"
    /\ KindOf(c) = k
    /\ IF ValidURL(mpesa.baseURL)
       THEN /\ pc' = [pc EXCEPT ![c] = "awaitToken"]
            /\ sent' = [sent EXCEPT ![c] = Append(@, GetToken)]
            /\ UNCHANGED <<ret, net>>
       ELSE /\ Return(c, RetErr("newrequest"))
            /\ UNCHANGED sent
    /\ UNCHANGED <<mpesa, alive, token, inbound, posted, stdout>>

InitiateSTKPushRequest(c) == InitiateBegin(c, "stk")

InitiateB2CRequest(c) == InitiateBegin(c, "b2c")

\* The remote service (or the network) answers the request call c waits on.
RemoteAnswers(c) ==
    /\ alive
    /\ pc[c] \in {"awaitToken", "awaitPost"}
    /\ net[c] = NoAnswer
    /\ \E a \in Answers(IF pc[c] = "awaitToken" THEN TokenBodies(c) ELSE PostBodies) :
          net' = [net EXCEPT ![c] = a]
    /\ UNCHANGED <<mpesa, alive, pc, token, sent, ret, inbound, posted, stdout>>

\* generateAccessToken sending the token request again after a transport
\* error.
generateAccessTokenRetries(c) ==
    /\ alive
    /\ pc[c] = "awaitToken"
    /\ net[c] # NoAnswer
    /\ LET r == makeRequest(net[c])
           u == Unmarshal(r.body)
       IN  IF r.err # "" THEN
               /\ sent' = [sent EXCEPT ![c] = Append(@, GetToken)]
               /\ net' = [net EXCEPT ![c] = NoAnswer]
               /\ UNCHANGED <<alive, token, pc, ret>>
           ELSE IF u.err # "" THEN
               /\ Return(c, RetErr(u.err))
               /\ UNCHANGED <<alive, token, sent>>
           ELSE IF u.ptr = "nil" THEN
               /\ Return(c, RetPanic)
               /\ alive' = FALSE
               /\ UNCHANGED <<token, sent>>
           ELSE
               /\ token' = [token EXCEPT ![c] = u.val.tok]
               /\ sent' = [sent EXCEPT ![c] = Append(@, PostTo(KindOf(c), u.val.tok))]
               /\ pc' = [pc EXCEPT ![c] = "awaitPost"]
               /\ net' = [net EXCEPT ![c] = NoAnswer]
               /\ UNCHANGED <<alive, ret>>
    /\ UNCHANGED <<mpesa, inbound, posted, stdout>>

\* An Initiate method that ignores a failed token fetch and sends its POST
\* without a token.
generateAccessTokenPostsAnyway(c) ==
    /\ alive
    /\ pc[c] = "awaitToken"
    /\ net[c] # NoAnswer
    /\ LET r == makeRequest(net[c])
           u == Unmarshal(r.body)
           t == IF r.err # "" \/ u.err # "" THEN 0 ELSE u.val.tok
       IN  IF r.err = "" /\ u.err = "" /\ u.ptr = "nil" THEN
               /\ Return(c, RetPanic)
               /\ alive' = FALSE
               /\ UNCHANGED <<token, sent>>
           ELSE
               /\ token' = [token EXCEPT ![c] = t]
               /\ sent' = [sent EXCEPT ![c] = Append(@, PostTo(KindOf(c), t))]
               /\ pc' = [pc EXCEPT ![c] = "awaitPost"]
               /\ net' = [net EXCEPT ![c] = NoAnswer]
               /\ UNCHANGED <<alive, ret>>
    /\ UNCHANGED <<mpesa, inbound, posted, stdout>>

\* An Initiate method that keeps the fetched token in a place the calls
\* share: a call whose fetch returns a token response uses the token another
\* call has stored, when there is one.
generateAccessTokenSharesToken(c) ==
    /\ alive
    /\ pc[c] = "awaitToken"
    /\ net[c] # NoAnswer
    /\ LET r == makeRequest(net[c])
           u == Unmarshal(r.body)
           stored == {token[d] : d \in Calls \ {c}} \ {0}
           t == IF stored # {} THEN CHOOSE x \in stored : TRUE ELSE u.val.tok
       IN  IF r.err # "" THEN
               /\ Return(c, RetErr(r.err))
               /\ UNCHANGED <<alive, token, sent>>
           ELSE IF u.err # "" THEN
               /\ Return(c, RetErr(u.err))
               /\ UNCHANGED <<alive, token, sent>>
           ELSE IF u.ptr = "nil" THEN
               /\ Return(c, RetPanic)
               /\ alive' = FALSE
               /\ UNCHANGED <<token, sent>>
           ELSE
               /\ token' = [token EXCEPT ![c] = t]
               /\ sent' = [sent EXCEPT ![c] = Append(@, PostTo(KindOf(c), t))]
               /\ pc' = [pc EXCEPT ![c] = "awaitPost"]
               /\ net' = [net EXCEPT ![c] = NoAnswer]
               /\ UNCHANGED <<alive, ret>>
    /\ UNCHANGED <<mpesa, inbound, posted, stdout>>

\* generateAccessToken from the return of client.Do on, and the caller's
\* lines up to the client.Do of the POST.
generateAccessToken(c) ==
    /\ alive
    /\ pc[c] = "awaitToken"
    /\ net[c] # NoAnswer
    /\ LET r == makeRequest(net[c])
           u == Unmarshal(r.body)
       IN  IF r.err # "" THEN
               /\ Return(c, RetErr(r.err))
               /\ UNCHANGED <<alive, token, sent>>
           ELSE IF u.err # "" THEN
               /\ Return(c, RetErr(u.err))
               /\ UNCHANGED <<alive, token, sent>>
           ELSE IF u.ptr = "nil" THEN
               \* accessTokenResponse.AccessToken on a nil pointer
               /\ Return(c, RetPanic)
               /\ alive' = FALSE
               /\ UNCHANGED <<token, sent>>
           ELSE
               /\ token' = [token EXCEPT ![c] = u.val.tok]
               /\ sent' = [sent EXCEPT ![c] = Append(@, PostTo(KindOf(c), u.val.tok))]
               /\ pc' = [pc EXCEPT ![c] = "awaitPost"]
               /\ net' = [net EXCEPT ![c] = NoAnswer]
               /\ UNCHANGED <<alive, ret>>
    /\ UNCHANGED <<mpesa, inbound, posted, stdout>>

\* An Initiate method that leaves a record of the acknowledged id in the
\* process's output before it returns.
InitiateFinishRegisters(c) ==
    /\ alive
    /\ pc[c] = "awaitPost"
    /\ net[c] # NoAnswer
    /\ LET r == makeRequest(net[c])
           u == Unmarshal(r.body)
       IN  IF r.err # "" THEN Return(c, RetErr(r.err)) /\ UNCHANGED stdout
           ELSE IF u.err # "" THEN Return(c, RetErr(u.err)) /\ UNCHANGED stdout
           ELSE /\ Return(c, RetResp(u))
                /\ stdout' = Append(stdout, [handler |-> KindOf(c), payload |-> "registered",
                                             id |-> u.val.id, code |-> 0, desc |-> ""])
    /\ UNCHANGED <<mpesa, alive, token, sent, inbound, posted>>

\* An Initiate method that sends the POST again after a transport error.
InitiateFinishRetries(c) ==
    /\ alive
    /\ pc[c] = "awaitPost"
    /\ net[c] # NoAnswer
    /\ LET r == makeRequest(net[c])
           u == Unmarshal(r.body)
       IN  IF r.err # "" THEN
               /\ sent' = [sent EXCEPT ![c] = Append(@, PostTo(KindOf(c), token[c]))]
               /\ Return(c, RetErr(r.err))
           ELSE IF u.err # "" THEN Return(c, RetErr(u.err)) /\ UNCHANGED sent
           ELSE Return(c, RetResp(u)) /\ UNCHANGED sent
    /\ UNCHANGED <<mpesa, alive, token, inbound, posted, stdout>>

\* The Initiate method from the return of the POST's client.Do to its return.
InitiateFinish(c) ==
    /\ alive
    /\ pc[c] = "awaitPost"
    /\ net[c] # NoAnswer
    /\ LET r == makeRequest(net[c])
           u == Unmarshal(r.body)
       IN  IF r.err # "" THEN Return(c, RetErr(r.err))
           ELSE IF u.err # "" THEN Return(c, RetErr(u.err))
           ELSE Return(c, RetResp(u))
    /\ UNCHANGED <<mpesa, alive, token, sent, inbound, posted, stdout>>

\* ------------------------------------------------------------ server

\* A callback body: undecodable (not JSON, or ResultCode not a number), the
\* JSON literal null, an object with none of the fields the handler's struct
\* names ({} or the other endpoint's payload), or the endpoint's own payload.
CbInvalid == [form |-> "invalid", id |-> "", code |-> 0, desc |-> ""]
CbNull == [form |-> "null", id |-> "", code |-> 0, desc |-> ""]
CbOther == [form |-> "other", id |-> "", code |-> 0, desc |-> ""]
CbResult(i, rc) == [form |-> "result", id |-> i, code |-> rc, desc |-> DescOf(rc)]

CallbackBodies ==
    {CbInvalid, CbNull, CbOther} \cup {CbResult(i, rc) : i \in Ids, rc \in ResultCodes}

Requests == [path : Paths, body : CallbackBodies]

HandlerOf(path) == IF path = "/stk-push-callback" THEN "stk" ELSE "b2c"

\* Decode with the ResultCode tag misspelt: the field is never filled.
DecodeLosesResultCode(body) ==
    IF body.form = "invalid" THEN [err |-> "json", ptr |-> "nil", id |-> "", code |-> 0, desc |-> ""]
    ELSE IF body.form = "null" THEN [err |-> "", ptr |-> "nil", id |-> "", code |-> 0, desc |-> ""]
    ELSE IF body.form = "other" THEN [err |-> "", ptr |-> "struct", id |-> "", code |-> 0, desc |-> ""]
    ELSE [err |-> "", ptr |-> "struct", id |-> body.id, code |-> 0, desc |-> body.desc]

\* Decode into a payload shared by the handler runs: the id read is that of
\* another request.
DecodeMixesIds(body) ==
    IF body.form = "invalid" THEN [err |-> "json", ptr |-> "nil", id |-> "", code |-> 0, desc |-> ""]
    ELSE IF body.form = "null" THEN [err |-> "", ptr |-> "nil", id |-> "", code |-> 0, desc |-> ""]
    ELSE IF body.form = "other" THEN [err |-> "", ptr |-> "struct", id |-> "", code |-> 0, desc |-> ""]
    ELSE [err |-> "", ptr |-> "struct", id |-> CHOOSE i \in Ids : i # body.id,
          code |-> body.code, desc |-> body.desc]

\* json.NewDecoder(req.Body).Decode(&payload): an error, payload = nil for
\* null, else the struct with the fields the object carries and the zero
\* value for the others.
Decode(body) ==
    IF body.form = "invalid" THEN [err |-> "json", ptr |-> "nil", id |-> "", code |-> 0, desc |-> ""]
    ELSE IF body.form = "null" THEN [err |-> "", ptr |-> "nil", id |-> "", code |-> 0, desc |-> ""]
    ELSE IF body.form = "other" THEN [err |-> "", ptr |-> "struct", id |-> "", code |-> 0, desc |-> ""]
    ELSE [err |-> "", ptr |-> "struct", id |-> body.id, code |-> body.code, desc |-> body.desc]

\* What a handler prints for a decoded payload: the payload with %+v, then
\* (unless the payload is nil, where the field access panics and net/http
\* recovers the panic) the result code and the result description.
Printed(h, p) ==
    [handler |-> h, payload |-> p.ptr, id |-> p.id, code |-> p.code, desc |-> p.desc]

\* A handler that keeps the first result of an id and ignores the later ones.
PrintIgnoresDuplicates(out, e) ==
    IF e.payload = "struct" /\ \E k \in DOMAIN out : out[k].payload = "struct" /\ out[k].id = e.id
    THEN out
    ELSE Append(out, e)

\* A handler that keeps one slot per id and overwrites it.
PrintOverwrites(out, e) ==
    IF e.payload = "struct" /\ \E k \in DOMAIN out : out[k].payload = "struct" /\ out[k].id = e.id
    THEN [k \in DOMAIN out |->
             IF out[k].payload = "struct" /\ out[k].id = e.id THEN e ELSE out[k]]
    ELSE Append(out, e)

\* A handler that prints only the callbacks of ids some call has returned.
PrintDropsUnknownIds(out, e) ==
    IF \E c \in Calls : pc[c] = "done" /\ ret[c].id = e.id
    THEN Append(out, e)
    ELSE out

\* The three fmt.Printf of a handler: stdout grows by what they print.
Printf(out, e) == Append(out, e)

\* The remote service posts a callback to one of the two endpoints.
RemotePosts ==
    /\ alive
    /\ posted < MaxCallbacks
    /\ \E req \in Requests : inbound' = inbound (+) SetToBag({req})
    /\ posted' = posted + 1
    /\ UNCHANGED <<mpesa, alive, pc, token, net, sent, ret, stdout>>

\* A handler that logs the decoding error and returns: the server goes on.
CallbackHandlerLogsAndReturns(req) ==
    /\ alive
    /\ BagIn(req, inbound)
    /\ inbound' = inbound (-) SetToBag({req})
    /\ LET p == Decode(req.body)
       IN  IF p.err # ""
           THEN UNCHANGED stdout
           ELSE stdout' = Printf(stdout, Printed(HandlerOf(req.path), p))
    /\ UNCHANGED <<mpesa, alive, pc, token, net, sent, ret, posted>>

\* One run of a callback handler on a posted request.
CallbackHandler(req) ==
    /\ alive
    /\ BagIn(req, inbound)
    /\ inbound' = inbound (-) SetToBag({req})
    /\ LET p == Decode(req.body)
       IN  IF p.err # ""
           THEN /\ alive' = FALSE          \* log.Fatalln
                /\ UNCHANGED stdout
           ELSE /\ stdout' = Printf(stdout, Printed(HandlerOf(req.path), p))
                /\ UNCHANGED alive
    /\ UNCHANGED <<mpesa, pc, token, net, sent, ret, posted>>

stkPushCallbackHandler ==
    \E req \in Requests : HandlerOf(req.path) = "stk" /\ CallbackHandler(req)

b2cRequestCallbackHandler ==
    \E req \in Requests : HandlerOf(req.path) = "b2c" /\ CallbackHandler(req)

\* ----------------------------------------------------- specification

Init ==
    /\ mpesa \in {NewMpesa([ConsumerKey |-> "key", ConsumerSecret |-> "secret", BaseURL |-> u]) :
                     u \in BaseURLs}
    /\ alive = TRUE
    /\ pc = [c \in Calls |-> "idle"]
    /\ token = [c \in Calls |-> 0]
    /\ net = [c \in Calls |-> NoAnswer]
    /\ sent = [c \in Calls |-> <<>>]
    /\ ret = [c \in Calls |-> NoRet]
    /\ inbound = EmptyBag
    /\ posted = 0
    /\ stdout = <<>>

\* The client alone: the Initiate calls and the remote's answers.
NextClient ==
    \/ \E c \in Calls : InitiateSTKPushRequest(c)
    \/ \E c \in Calls : InitiateB2CRequest(c)
    \/ \E c \in Calls : RemoteAnswers(c)
    \/ \E c \in Calls : generateAccessToken(c)
    \/ \E c \in Calls : InitiateFinish(c)

\* The callback server alone.
NextServer ==
    \/ RemotePosts
    \/ stkPushCallbackHandler
    \/ b2cRequestCallbackHandler

Next == NextClient \/ NextServer

\* One transaction end to end: a single Initiate call, made by any of the
\* callers, with the remote's answers and the callback server.
NoCallYet == \A c \in Calls : pc[c] = "idle"

NextOneTransaction ==
    \/ \E c \in Calls : NoCallYet /\ InitiateSTKPushRequest(c)
    \/ \E c \in Calls : NoCallYet /\ InitiateB2CRequest(c)
    \/ \E c \in Calls : RemoteAnswers(c)
    \/ \E c \in Calls : generateAccessToken(c)
    \/ \E c \in Calls : InitiateFinish(c)
    \/ NextServer

SpecClient == Init /\ [][NextClient]_vars

SpecServer == Init /\ [][NextServer]_vars

SpecOneTransaction == Init /\ [][NextOneTransaction]_vars

Spec == Init /\ [][Next]_vars

\* --------------------------------------------------- claim vocabulary

\* The places in the output where a result for correlation id i is printed.
Results(i) == {k \in DOMAIN stdout : stdout[k].payload = "struct" /\ stdout[k].id = i}

\* The terminal states the output reports for id i.
Reported(i) == {IF stdout[k].code = 0 THEN "Completed" ELSE "Failed" : k \in Results(i)}

First(S) == CHOOSE k \in S : \A j \in S : k <= j

IsPrefix(s, t) == Len(s) <= Len(t) /\ SubSeq(t, 1, Len(s)) = s

\* In this step a handler takes request req off the wire.
Handled(req) == CopiesIn(req, inbound') < CopiesIn(req, inbound)

\* In this step call c returns to its caller.
Returns(c) == pc[c] # "done" /\ pc'[c] = "done"

\* Call c has returned an acknowledgement that carries a correlation id.
Acknowledged(c) == pc[c] = "done" /\ ret[c].err = "" /\ ret[c].id \in Ids

InFlightFor(i) == \E req \in Requests : req.body.id = i /\ BagIn(req, inbound)

\* The state other goroutines can see: nothing of a call's own locals.
Shared == <<mpesa, inbound, posted, stdout>>

\* A step of work the program has begun: a call in progress, a callback to
\* handle.  Not a caller starting a call, nor the remote posting a callback.
ProgramStep ==
    \/ \E c \in Calls : RemoteAnswers(c) \/ generateAccessToken(c) \/ InitiateFinish(c)
    \/ stkPushCallbackHandler
    \/ b2cRequestCallbackHandler

CountOf(s, m) == Cardinality({k \in DOMAIN s : s[k].method = m})

Is2xx(status) == status \in 200..299

\* --------------------------------------------------------------- C1

C4_TokenErrorsAreErrors ==
    [][\A c \in Calls :
          (/\ pc[c] = "awaitToken"
           /\ pc'[c] # "awaitToken"
           /\ net[c].type = "resp"
           /\ \/ ~Is2xx(net[c].status)
              \/ net[c].body.errorCode # ""
              \/ net[c].body.form = "invalid")
              => (pc'[c] = "done" /\ ret'[c].err \notin {"", "panic"})]_vars

\* --------------------------------------------------------------- C5

\* C5, as claimed: a POST answered with a non-2xx status or with a body
\* that carries an errorCode makes the Initiate method return an error.
C5_RejectionIsAnError ==
    [][\A c \in Calls :
          (/\ pc[c] = "awaitPost"
           /\ Returns(c)
           /\ net[c].type = "resp"
           /\ \/ ~Is2xx(net[c].status)
              \/ net[c].body.errorCode # "")
              => ret'[c].err # ""]_vars

\* --------------------------------------------------------------- C6

\* C6, as claimed: a call that has returned has sent exactly one token
\* request and at most one POST.
C6_ExactlyOneTokenRequest ==
    \A c \in Calls :
        pc[c] = "done" => (CountOf(sent[c], "GET") = 1 /\ CountOf(sent[c], "POST") <= 1)

\* C6, amended: a call sends at most one token request and at most one
\* POST, whatever the remote answers; it has sent exactly one token request
\* once it is past building its requests, and nothing at all when the base
\* URL does not parse.
C6_NoHiddenRetries ==
    \A c \in Calls :
        /\ CountOf(sent[c], "GET") <= 1
        /\ CountOf(sent[c], "POST") <= 1
        /\ Len(sent[c]) = CountOf(sent[c], "GET") + CountOf(sent[c], "POST")
        /\ (pc[c] # "idle" /\ ValidURL(mpesa.baseURL)) => CountOf(sent[c], "GET") = 1
        /\ ~ValidURL(mpesa.baseURL) => sent[c] = <<>>

\* A call whose token request met a transport error has returned that
\* error after the one request.
C6_Witness ==
    \E c \in Calls : pc[c] = "done" /\ ret[c].err = "network" /\ sent[c] = <<GetToken>>

\* --------------------------------------------------------------- C7

PostFailed(c) ==
    /\ pc[c] = "awaitPost"
    /\ \/ net[c].type \in {"neterr", "readerr"}
       \/ net[c].type = "resp" /\ net[c].body.form = "invalid"

\* C11: a network failure of the POST, a failure to read its response
\* body, or a body that is not valid JSON makes the Initiate method return
\* an error and a nil response in its next step, without sending anything
\* more; and a call that has returned sends nothing afterwards.
C11_PostFailureReturnsError ==
    [][\A c \in Calls :
          /\ (PostFailed(c) /\ <<pc[c], ret[c], sent[c]>>' # <<pc[c], ret[c], sent[c]>>)
                => /\ pc'[c] = "done"
                   /\ ret'[c].err = (IF net[c].type = "neterr" THEN "network"
                                     ELSE IF net[c].type = "readerr" THEN "read"
                                     ELSE "json")
                   /\ ret'[c].resp = "nil"
                   /\ ret'[c].id = ""
                   /\ sent'[c] = sent[c]
          /\ pc[c] = "done" => (pc'[c] = "done" /\ ret'[c] = ret[c] /\ sent'[c] = sent[c])]_vars

\* The three failures have each been returned by a call after its one POST.
C11_Witness ==
    \E c \in Calls : \E d \in Calls :
        /\ pc[c] = "done" /\ ret[c].err \in {"network", "read"}
        /\ Len(sent[c]) = 2 /\ sent[c][2].method = "POST"
        /\ pc[d] = "done" /\ ret[d].err = "json"
        /\ Len(sent[d]) = 2 /\ sent[d][2].method = "POST"

\* -------------------------------------------------------------- C12

\* The token request of call c has met a transport error, a body that
\* cannot be read, or a body that does not decode: generateAccessToken
\* returns an error.
TokenFetchFailed(c) ==
    /\ pc[c] = "awaitToken"
    /\ \/ net[c].type \in {"neterr", "readerr"}
       \/ net[c].type = "resp" /\ net[c].body.form = "invalid"

\* In this step call c sends its POST.
SendsPost(c) ==
    /\ Len(sent'[c]) = Len(sent[c]) + 1
    /\ sent'[c][Len(sent'[c])].method = "POST"

Bearers(c) == {sent[c][k].bearer : k \in {j \in DOMAIN sent[c] : sent[c][j].method = "POST"}}

\* C13: under every interleaving of the calls on one Mpesa value, no step
\* changes the value's consumer key, consumer secret, base URL or HTTP
\* client, and the POST of a call carries the token the remote issued to
\* that call's own token request (or the empty token, when its answer
\* carried none): never the token issued to another call.
C13_CallsDoNotInterfere ==
    [][/\ mpesa' = mpesa
       /\ \A c \in Calls :
             /\ Bearers(c)' \subseteq {token'[c]}
             /\ Bearers(c)' \subseteq {0, FreshToken(c)}
             /\ \A d \in Calls \ {c} : FreshToken(d) \notin Bearers(c)']_vars

\* Two calls are in flight at once, each with its POST sent under its own
\* token, on the Mpesa value NewMpesa built.
C13_Witness ==
    \E c \in Calls : \E d \in Calls \ {c} :
        /\ pc[c] = "awaitPost" /\ Bearers(c) = {FreshToken(c)}
        /\ pc[d] = "awaitPost" /\ Bearers(d) = {FreshToken(d)}
        /\ FreshToken(c) # FreshToken(d)
        /\ mpesa = NewMpesa([ConsumerKey |-> "key", ConsumerSecret |-> "secret",
                             BaseURL |-> "https://sandbox.safaricom.co.ke"])

\* -------------------------------------------------------------- C14

\* C14: a handler, STK push or B2C, runs only while the process is up; the
\* process is down after the step exactly when the body of the callback it
\* took does not decode; and once the process is down it stays down, no
\* callback is taken off the wire and nothing more is printed, whatever
\* the correlation id of the callbacks still waiting.
C14_UndecodableCallbackEndsProcess ==
    [][/\ \A req \in Requests :
             Handled(req) => (alive /\ (alive' <=> req.body.form # "invalid"))
       /\ ~alive => (~alive' /\ inbound' = inbound /\ stdout' = stdout)]_vars

\* An undecodable callback has ended the process while a result callback
\* waits, which no handler will take.
C14_Witness ==
    /\ ~alive
    /\ posted = MaxCallbacks
    /\ \E req \in Requests : req.body.form = "result" /\ BagIn(req, inbound)
    /\ ~ENABLED (stkPushCallbackHandler \/ b2cRequestCallbackHandler)

====
